---- MODULE Spec2Model ----
(***************************************************************************)
(* Status reconciliation and adaptive-refresh engine of the flight         *)
(* dashboard integration (custom_components/flight_dashboard).             *)
(*                                                                         *)
(* Instants are integers: seconds since an arbitrary epoch, all in UTC.    *)
(* A missing instant (None, "" or an unparseable value) is NoTime.         *)
(* A missing string is "".                                                 *)
(***************************************************************************)
EXTENDS Integers, Sequences, FiniteSets, TLC

\* ------------------------------------------------------------------ values

NoTime == -1
\* compute_next_refresh_seconds returning None
NoRefresh == -1
\* a dep/arr airport without a "tz" entry
NoTz == -99999

DaySeconds == 86400

\* delay_minutes / duration fields holding None
NoMinutes == -100000
\* a key the sensor has popped from the published record
Dropped == -100001

\* a function on 1..n as the sequence it is
AsTuple(f) == <<>> \o f

\* the element of a one-element set
The(S) == CHOOSE x \in S : TRUE

Max(a, b) == IF a >= b THEN a ELSE b
Min(a, b) == IF a <= b THEN a ELSE b

RECURSIVE SetMin(_)
SetMin(S) ==
  IF S = {} THEN NoTime
  ELSE LET x == CHOOSE y \in S : TRUE
           m == SetMin(S \ {x})
       IN  IF m = NoTime THEN x ELSE Min(x, m)

\* Python's floor division for a positive divisor.
FloorDiv(a, b) == IF a >= 0 THEN a \div b ELSE -((-a + b - 1) \div b)

\* int(round(x / 60)) : Python 3 rounds halves to the even neighbour.
RoundMinutes(secs) ==
  LET q == FloorDiv(secs, 60)
      r == secs - q * 60
  IN  IF r < 30 THEN q
      ELSE IF r > 30 THEN q + 1
      ELSE IF q % 2 = 0 THEN q ELSE q + 1

\* ---------------------------------------------------------- record shapes

\* A status payload (dict) or None.  isdict = FALSE is "not a dict" (None).
NoneStatus ==
  [isdict |-> FALSE, provider |-> "", state |-> "", provider_state |-> "",
   dep_scheduled |-> NoTime, dep_estimated |-> NoTime, dep_actual |-> NoTime,
   arr_estimated |-> NoTime, arr_actual |-> NoTime,
   error |-> "", error_message |-> "", position |-> FALSE, position_provider |-> ""]

EmptyDict == [NoneStatus EXCEPT !.isdict = TRUE]

\* "isinstance(x, dict) and x": a non-empty dict
NonEmptyDict(s) == s.isdict /\ s # EmptyDict

NoSide ==
  [scheduled |-> NoTime, estimated |-> NoTime, actual |-> NoTime,
   iata |-> "", tz |-> NoTz]

\* A flight record as the ingestion layer hands it to the engine.
BlankFlight ==
  [flight_key |-> "", source |-> "manual", status_state |-> "",
   dep |-> NoSide, arr |-> NoSide,
   scheduled_departure |-> NoTime, scheduled_arrival |-> NoTime,
   dep_airport |-> "", arr_airport |-> "",
   status |-> NoneStatus, alias |-> FALSE,
   status_updated_at |-> NoTime, position |-> FALSE,
   delay_status |-> "", delay_status_key |-> "", delay_minutes |-> NoMinutes,
   duration_scheduled_minutes |-> NoMinutes, duration_estimated_minutes |-> NoMinutes,
   duration_actual_minutes |-> NoMinutes, duration_minutes |-> NoMinutes]

\* (flight.get("status_state") or "unknown").lower()
StateOf(f) == IF f.status_state = "" THEN "unknown" ELSE f.status_state

\* str.lower() on the coarse state labels the engine and providers use
Lower(s) ==
  CASE s = "Arrived" -> "arrived"
    [] s = "Scheduled" -> "scheduled"
    [] s = "Cancelled" -> "cancelled"
    [] s = "Canceled" -> "canceled"
    [] OTHER -> s

\* (flight.get("status_state") or "unknown").lower()
LowerState(f) == Lower(StateOf(f))

\* ------------------------------------------------------- time normalizer

\* _best_time(flight, side, ["actual", "estimated", "scheduled"])
BestTime(block) ==
  IF block.actual # NoTime THEN block.actual
  ELSE IF block.estimated # NoTime THEN block.estimated
  ELSE block.scheduled

\* _date_in_tz: the calendar day of an instant projected into a zone; a
\* missing zone leaves the instant in its own (UTC) zone.
DateInTz(t, tz) ==
  IF t = NoTime THEN NoTime
  ELSE FloorDiv(t + (IF tz = NoTz THEN 0 ELSE tz), DaySeconds)

\* status.get("dep_scheduled") or status.get("dep_estimated") or status.get("dep_actual")
StatusDep(status) ==
  IF status.dep_scheduled # NoTime THEN status.dep_scheduled
  ELSE IF status.dep_estimated # NoTime THEN status.dep_estimated
  ELSE status.dep_actual

NeverDateMismatch(flight, status) == FALSE

\* _status_date_mismatch(flight, status)
StatusDateMismatch(flight, status) ==
  LET flight_dep == flight.dep.scheduled
      status_dep == StatusDep(status)
  IN  /\ flight_dep # NoTime
      /\ status_dep # NoTime
      /\ DateInTz(flight_dep, flight.dep.tz) # DateInTz(status_dep, flight.dep.tz)

\* ------------------------------------------------------ refresh scheduler

Hour == 3600

\* the minimum interval taken in minutes where seconds are meant
TtlUnconverted(ttl_minutes) == Max(60, ttl_minutes)

\* ttl_seconds = max(60, int(ttl_minutes) * 60)
TtlSeconds(ttl_minutes) == Max(60, ttl_minutes * 60)

\* the policy stopping by state only, never by the age of the arrival
RefreshStopByStateOnly(flight, now, ttl_minutes) ==
  IF BestTime(flight.dep) = NoTime /\ BestTime(flight.arr) = NoTime THEN NoRefresh
  ELSE IF LowerState(flight) \in {"arrived", "cancelled", "landed"} THEN NoRefresh
  ELSE Max(Max(60, ttl_minutes * 60), 60 * 60)

\* compute_next_refresh_seconds(flight, now, ttl_minutes)
ComputeNextRefreshSeconds(flight, now, ttl_minutes) ==
  LET ttl_seconds == TtlSeconds(ttl_minutes)
      dep == BestTime(flight.dep)
      arr == BestTime(flight.arr)
      state == LowerState(flight)
  IN  IF dep = NoTime /\ arr = NoTime THEN NoRefresh
      ELSE IF arr # NoTime /\ now > arr + 1 * Hour THEN NoRefresh
      ELSE IF dep # NoTime /\ now >= dep - 1 * Hour /\ (arr = NoTime \/ now <= arr)
        THEN Max(ttl_seconds, 15 * 60)
      ELSE IF dep # NoTime /\ now < dep
        THEN LET delta == dep - now
             IN  IF delta > 6 * Hour THEN Max(ttl_seconds, 6 * 60 * 60)
                 ELSE IF delta > 2 * Hour THEN Max(ttl_seconds, 30 * 60)
                 ELSE Max(ttl_seconds, 10 * 60)
      ELSE IF state \in {"arrived", "cancelled", "landed"} THEN NoRefresh
      ELSE IF state = "diverted" THEN Max(ttl_seconds, 15 * 60)
      ELSE Max(ttl_seconds, 60 * 60)

\* ------------------------------------------------------ derived fields

\* dep.get("actual") or dep.get("estimated")
ActualOrEstimated(block) ==
  IF block.actual # NoTime THEN block.actual ELSE block.estimated

\* the label taken as Delayed from the grace on, not above it
DelayedFromGrace(flight, grace_minutes) ==
  LET useArr == flight.arr.scheduled # NoTime /\ ActualOrEstimated(flight.arr) # NoTime
      useDep == flight.dep.scheduled # NoTime /\ ActualOrEstimated(flight.dep) # NoTime
      block == IF useArr THEN flight.arr ELSE flight.dep
      minutes == RoundMinutes(ActualOrEstimated(block) - block.scheduled)
  IN  IF LowerState(flight) \in {"cancelled", "canceled"} THEN <<"Cancelled", NoMinutes>>
      ELSE IF ~useArr /\ ~useDep THEN <<"Unknown", NoMinutes>>
      ELSE IF minutes >= grace_minutes THEN <<"Delayed", minutes>>
      ELSE <<"On Time", minutes>>

\* the cancellation looked at only when no reference pair is complete
CancelledCheckedLast(flight, grace_minutes) ==
  LET useArr == flight.arr.scheduled # NoTime /\ ActualOrEstimated(flight.arr) # NoTime
      useDep == flight.dep.scheduled # NoTime /\ ActualOrEstimated(flight.dep) # NoTime
      block == IF useArr THEN flight.arr ELSE flight.dep
      minutes == RoundMinutes(ActualOrEstimated(block) - block.scheduled)
  IN  IF useArr \/ useDep
        THEN IF minutes > grace_minutes THEN <<"Delayed", minutes>>
             ELSE <<"On Time", minutes>>
      ELSE IF LowerState(flight) \in {"cancelled", "canceled"} THEN <<"Cancelled", NoMinutes>>
      ELSE <<"Unknown", NoMinutes>>

\* _compute_delay_status(flight, grace_minutes) -> <<label, minutes>>
ComputeDelayStatus(flight, grace_minutes) ==
  LET state == LowerState(flight)
      dep_sched == flight.dep.scheduled
      dep_est == ActualOrEstimated(flight.dep)
      arr_sched == flight.arr.scheduled
      arr_est == ActualOrEstimated(flight.arr)
      useArr == arr_sched # NoTime /\ arr_est # NoTime
      useDep == dep_sched # NoTime /\ dep_est # NoTime
      ref_sched == IF useArr THEN arr_sched ELSE IF useDep THEN dep_sched ELSE NoTime
      ref_est == IF useArr THEN arr_est ELSE IF useDep THEN dep_est ELSE NoTime
      minutes == RoundMinutes(ref_est - ref_sched)
  IN  IF state \in {"cancelled", "canceled"} THEN <<"Cancelled", NoMinutes>>
      ELSE IF ref_sched = NoTime \/ ref_est = NoTime THEN <<"Unknown", NoMinutes>>
      ELSE IF minutes > grace_minutes THEN <<"Delayed", minutes>>
      ELSE <<"On Time", minutes>>

\* (delay_state or "unknown").lower().replace(" ", "_")
DelayKey(label) ==
  CASE label = "Cancelled" -> "cancelled"
    [] label = "Delayed" -> "delayed"
    [] label = "On Time" -> "on_time"
    [] OTHER -> "unknown"

\* the difference without the guard against an arrival before the departure
DurationUnguarded(dep_dt, arr_dt) ==
  IF dep_dt = NoTime \/ arr_dt = NoTime THEN NoMinutes
  ELSE RoundMinutes(arr_dt - dep_dt)

\* _duration_minutes(dep_dt, arr_dt)
DurationMinutes(dep_dt, arr_dt) ==
  IF dep_dt = NoTime \/ arr_dt = NoTime THEN NoMinutes
  ELSE IF arr_dt - dep_dt < 0 THEN NoMinutes
  ELSE RoundMinutes(arr_dt - dep_dt)

\* _compute_durations(flight)
ComputeDurations(flight) ==
  LET scheduled == DurationMinutes(flight.dep.scheduled, flight.arr.scheduled)
      estimated == DurationMinutes(ActualOrEstimated(flight.dep), ActualOrEstimated(flight.arr))
      actual == DurationMinutes(flight.dep.actual, flight.arr.actual)
      best == IF actual # NoMinutes THEN actual
              ELSE IF estimated # NoMinutes THEN estimated ELSE scheduled
  IN  [duration_scheduled_minutes |-> scheduled,
       duration_estimated_minutes |-> estimated,
       duration_actual_minutes |-> actual,
       duration_minutes |-> best]

\* the derived-field block left out: the record keeps the fields it came with
DerivedLeftStale(f, grace_minutes) == f

\* a derived-field block that reads the label it wrote the time before
DerivedFromLast(f, grace_minutes) ==
  LET d == ComputeDelayStatus(f, grace_minutes)
      u == ComputeDurations(f)
  IN  [f EXCEPT !.delay_status = IF f.delay_status = d[1] THEN "Unknown" ELSE d[1],
                !.delay_status_key = DelayKey(d[1]),
                !.delay_minutes = d[2],
                !.duration_scheduled_minutes = u.duration_scheduled_minutes,
                !.duration_estimated_minutes = u.duration_estimated_minutes,
                !.duration_actual_minutes = u.duration_actual_minutes,
                !.duration_minutes = u.duration_minutes]

\* The derived-field block of async_update_statuses (after either pass).
WithDerived(f, grace_minutes) ==
  LET d == ComputeDelayStatus(f, grace_minutes)
      u == ComputeDurations(f)
  IN  [f EXCEPT !.delay_status = d[1],
                !.delay_status_key = DelayKey(d[1]),
                !.delay_minutes = d[2],
                !.duration_scheduled_minutes = u.duration_scheduled_minutes,
                !.duration_estimated_minutes = u.duration_estimated_minutes,
                !.duration_actual_minutes = u.duration_actual_minutes,
                !.duration_minutes = u.duration_minutes]

\* ------------------------------------------------- heuristic corrections

FutureGraceMinutes == 90
AssumedGraceMinutes == 15

\* _coerce_state_by_time(flight, now)
CoerceStateByTime(flight, now) ==
  LET state == LowerState(flight)
      dep == BestTime(flight.dep)
  IN  IF state \notin {"en route", "arrived", "cancelled", "canceled"} THEN flight
      ELSE IF dep = NoTime THEN flight
      ELSE IF now < dep - FutureGraceMinutes * 60
        THEN [flight EXCEPT !.status_state = "Scheduled"]
      ELSE flight

\* the guard without its look at status_updated_at
FiresWhateverUpdated(flight, now) ==
  /\ LowerState(flight) \notin {"arrived", "cancelled", "canceled", "landed"}
  /\ BestTime(flight.arr) # NoTime
  /\ now > BestTime(flight.arr) + 15 * 60

\* The guard of _apply_assumed_arrival: TRUE when the correction fires.
AssumedArrivalFires(flight, now) ==
  LET state == LowerState(flight)
      arr == BestTime(flight.arr)
      updated_at == flight.status_updated_at
  IN  /\ state \notin {"arrived", "cancelled", "canceled", "landed"}
      /\ arr # NoTime
      /\ ~(now <= arr + AssumedGraceMinutes * 60)
      /\ ~(updated_at # NoTime /\ updated_at >= arr + AssumedGraceMinutes * 60)

\* _apply_assumed_arrival(flight, now).  A status that is a dict is changed
\* in place; a record without one gets a new dict.
ApplyAssumedArrival(flight, now) ==
  IF ~AssumedArrivalFires(flight, now) THEN flight
  ELSE LET status == IF flight.status.isdict THEN flight.status ELSE EmptyDict
       IN  [flight EXCEPT
              !.status_state = "Arrived",
              !.status = [status EXCEPT
                            !.provider = IF status.provider = "" THEN "unknown"
                                         ELSE status.provider,
                            !.error = "assumed_arrival",
                            !.error_message = "assumed_arrival"],
              !.alias = flight.alias /\ flight.status.isdict]

\* _coerce_state_by_time(f, now) then _apply_assumed_arrival(f, now), as
\* every branch that applies a status runs them
Corrected(flight, now) ==
  The({ApplyAssumedArrival(g, now) : g \in {CoerceStateByTime(flight, now)}})

\* apply_status(flight, status): the status's fields written onto the record.
ApplyStatus(flight, status) ==
  [flight EXCEPT
     !.status_state = IF status.state # "" THEN status.state ELSE @,
     !.dep = [@ EXCEPT
                !.estimated = IF status.dep_estimated # NoTime
                              THEN status.dep_estimated ELSE @,
                !.actual = IF status.dep_actual # NoTime
                           THEN status.dep_actual ELSE @],
     !.arr = [@ EXCEPT
                !.estimated = IF status.arr_estimated # NoTime
                              THEN status.arr_estimated ELSE @,
                !.actual = IF status.arr_actual # NoTime
                           THEN status.arr_actual ELSE @]]

\* ------------------------------------------------------------ the cache

Keys == {"K1", "K2", "K3"}

\* cache.get(key) finding nothing
NoEntry ==
  [present |-> FALSE, status |-> NoneStatus, updated_at |-> NoTime, next_check |-> NoTime]

EmptyCache == [k \in Keys |-> NoEntry]

\* cache.pop(key, None)
CachePop(c, key) == [c EXCEPT ![key] = NoEntry]

\* clear_status_cache(hass, flight_key): "" clears every entry
ClearedCache(c, flight_key) ==
  IF flight_key # "" THEN CachePop(c, flight_key) ELSE EmptyCache

\* -------------------------------------------------------- configuration

\* (options.get("status_provider") or "flightradar24").lower()
ConfiguredProvider(opts) ==
  Lower(IF opts.status_provider = "" THEN "flightradar24" ELSE opts.status_provider)

\* the position provider of the fetch pass, "same_as_status" resolved
PositionProvider(opts) ==
  LET p == Lower(IF opts.position_provider = "" THEN "same_as_status"
                 ELSE opts.position_provider)
  IN  IF p \in {"same_as_status", "same", "status"} THEN ConfiguredProvider(opts) ELSE p

\* position_provider and position_provider != status_provider
DistinctPosition(opts) ==
  PositionProvider(opts) # "" /\ PositionProvider(opts) # ConfiguredProvider(opts)

\* -------------------------------------------------- the apply-cached pass

\* the local name status_provider before its first assignment
Unbound == "<unbound>"

DateMismatchStatus(sp) ==
  [EmptyDict EXCEPT !.provider = sp, !.error = "date_mismatch",
                    !.error_message = "date_mismatch"]

\* One iteration of "for f in flights" of the apply-cached pass on the
\* engine state e = [cache, flights, sp, raised]; n indexes flights.
ApplyCachedOne(e, n, opts, now) ==
  LET f == e.flights[n]
      key == f.flight_key
      cached == e.cache[key]
      status0 == cached.status
      mismatch == status0.isdict /\ StatusDateMismatch(f, status0)
      status == IF mismatch THEN DateMismatchStatus(e.sp) ELSE status0
      sp1 == IF status.isdict THEN Lower(status.provider) ELSE e.sp
      configured == ConfiguredProvider(opts)
      f1 == [f EXCEPT !.status = status, !.alias = ~mismatch,
                      !.status_updated_at = cached.updated_at]
      f2 == Corrected(ApplyStatus(f1, status), now)
      f3 == IF status.isdict THEN f2 ELSE f
      \* the cached dict is the record's status: a change in place shows in both
      c3 == IF f3.alias /\ f3.status # status0
            THEN [e.cache EXCEPT ![key] = [cached EXCEPT !.status = f3.status]] ELSE e.cache
  IN  IF key = "" THEN e
      ELSE IF ~cached.present THEN e
      ELSE IF mismatch /\ e.sp = Unbound THEN [e EXCEPT !.raised = TRUE]
      ELSE IF status.isdict /\ sp1 # "" /\ sp1 # configured
        THEN [e EXCEPT !.cache = CachePop(e.cache, key), !.sp = sp1]
      ELSE IF status.isdict /\ StatusDateMismatch(f, status)
        THEN [e EXCEPT !.cache = CachePop(e.cache, key), !.sp = sp1]
      ELSE [e EXCEPT !.cache = c3, !.sp = sp1,
                     !.flights = [e.flights EXCEPT
                                    ![n] = WithDerived(f3, opts.delay_grace_minutes)]]

RECURSIVE ApplyCachedFrom(_, _, _, _)
ApplyCachedFrom(e, n, opts, now) ==
  IF n > Len(e.flights) \/ e.raised THEN e
  ELSE The({ApplyCachedFrom(e1, n + 1, opts, now) : e1 \in {ApplyCachedOne(e, n, opts, now)}})

\* the whole pass, lines 265-300
ApplyCachedPass(cache, flights, opts, now) ==
  ApplyCachedFrom([cache |-> cache, flights |-> flights, sp |-> Unbound, raised |-> FALSE],
                  1, opts, now)

\* ------------------------------------------------------ the due selection

\* the selection ignoring next_check: every keyed record is due
DueWhatever(cache, f, force_refresh, now) == TRUE

\* "force_refresh or not next_check_dt or now >= next_check_dt"
IsDue(cache, f, force_refresh, now) ==
  LET next_check == cache[f.flight_key].next_check
  IN  force_refresh \/ next_check = NoTime \/ now >= next_check

KeyedIndices(flights) == {n \in 1..Len(flights) : flights[n].flight_key # ""}

RECURSIVE SortedSeq(_)
SortedSeq(S) ==
  IF S = {} THEN <<>>
  ELSE LET m == CHOOSE x \in S : \A y \in S : x <= y
       IN  <<m>> \o SortedSeq(S \ {m})

\* due: the indices of the due records, in batch order
DueList(cache, flights, force_refresh, now) ==
  SortedSeq({n \in KeyedIndices(flights) : IsDue(cache, flights[n], force_refresh, now)})

\* next_times left empty by the due selection
OnlyRefreshedTimes(cache, flights, force_refresh, now) == {}

\* next_times after the due selection: the next_check of every record not due
NotDueTimes(cache, flights, force_refresh, now) ==
  {cache[flights[n].flight_key].next_check :
     n \in {m \in KeyedIndices(flights) : ~IsDue(cache, flights[m], force_refresh, now)}}

\* --------------------------------------------------------- the fetch pass

\* the fetch loop without its terminal test
SkipsNothing(f) == FALSE

\* state in ("arrived", "cancelled", "landed"): the terminal skip
TerminalSkip(f) == LowerState(f) \in {"arrived", "cancelled", "landed"}

\* any(status.get(k) for k in ("provider_state", "dep_estimated", ...))
HasSignal(status) ==
  \/ status.provider_state # ""
  \/ status.dep_estimated # NoTime
  \/ status.arr_estimated # NoTime
  \/ status.dep_actual # NoTime
  \/ status.arr_actual # NoTime
  \/ status.position

\* prev_status = f.get("status") if isinstance(f.get("status"), dict) else {}
PrevStatus(f) == IF f.status.isdict THEN f.status ELSE EmptyDict

\* the fetched error payload taking the place of the last status
OverwriteWithError(f, status, status_provider, now) ==
  [f EXCEPT !.status = status, !.alias = FALSE, !.status_updated_at = now]

\* lines 390-396: keep the last status, splice in the error metadata
KeepPrevWithError(f, status, status_provider, now) ==
  LET prev == PrevStatus(f)
  IN  [f EXCEPT
         !.status = [prev EXCEPT
                       !.provider = IF prev.provider = "" THEN status_provider ELSE @,
                       !.error = status.error,
                       !.error_message = IF status.error_message # ""
                                         THEN status.error_message ELSE @],
         !.status_updated_at = now]

\* lines 398-405 and 407-414: overwrite, stamp and apply the fetched status
TakeFetched(f, status, position, position_provider, now) ==
  LET st == IF position
            THEN [status EXCEPT !.position = TRUE, !.position_provider = position_provider]
            ELSE status
      f1 == [f EXCEPT !.status = st, !.alias = FALSE, !.status_updated_at = now]
  IN  Corrected(ApplyStatus(f1, st), now)

\* the marker taking the place of the last status instead of going on top
ClearedNoStatus(f, status_provider, now) ==
  [f EXCEPT
     !.status = [EmptyDict EXCEPT !.provider = status_provider, !.error = "no_status",
                                  !.error_message = "no_status"],
     !.alias = FALSE,
     !.status_updated_at = now]

\* lines 434-443: no status from the provider
MarkNoStatus(f, status_provider, now) ==
  LET prev == PrevStatus(f)
  IN  [f EXCEPT
         !.status = [prev EXCEPT
                       !.provider = IF prev.provider = "" THEN status_provider ELSE @,
                       !.error = "no_status",
                       !.error_message = "no_status"],
         !.alias = f.alias /\ f.status.isdict,
         !.status_updated_at = now]

\* lines 419-432: the fields of the manual-store backfill
BackfillFields(f) ==
  (IF f.dep_airport = "" /\ f.dep.iata # "" THEN {"dep_airport"} ELSE {}) \cup
  (IF f.arr_airport = "" /\ f.arr.iata # "" THEN {"arr_airport"} ELSE {}) \cup
  (IF f.scheduled_departure = NoTime THEN {"scheduled_departure"} ELSE {}) \cup
  (IF f.scheduled_arrival = NoTime THEN {"scheduled_arrival"} ELSE {})

\* lines 428 and 430 evaluate status.get(...) on a status that is no dict
BackfillRaises(f) ==
  \/ f.scheduled_departure = NoTime /\ f.dep.scheduled = NoTime
  \/ f.scheduled_arrival = NoTime /\ f.arr.scheduled = NoTime

IsManual(f) == (IF f.source = "" THEN "manual" ELSE f.source) = "manual"

\* The merge of one fetch, lines 370-445, on the due record f.
\* Result: [f, raised, backfill].
MergeFetched(f, status, position, opts, now) ==
  LET status_provider == ConfiguredProvider(opts)
      keep == status.isdict /\ status.error # ""
              /\ NonEmptyDict(PrevStatus(f)) /\ ~HasSignal(status)
      f1 == IF status.isdict
            THEN IF keep THEN KeepPrevWithError(f, status, status_provider, now)
                 ELSE TakeFetched(f, status, position, PositionProvider(opts), now)
            ELSE IF position THEN [f EXCEPT !.position = TRUE]
            ELSE MarkNoStatus(f, status_provider, now)
      positionOnly == ~status.isdict /\ position
      raised == positionOnly /\ IsManual(f) /\ BackfillRaises(f)
      backfill == IF positionOnly /\ IsManual(f) /\ ~raised THEN BackfillFields(f) ELSE {}
  IN  [f |-> IF raised THEN f1 ELSE ApplyAssumedArrival(f1, now),
       raised |-> raised, backfill |-> backfill]

\* the entry stored with next_check = now: the interval is not added
EntryDueAtOnce(f, status, now, ttl_minutes) ==
  IF ComputeNextRefreshSeconds(f, now, ttl_minutes) = NoRefresh THEN NoEntry
  ELSE [present |-> TRUE,
        status |-> IF f.status.isdict THEN f.status ELSE status,
        updated_at |-> now,
        next_check |-> now]

\* lines 452-463: the cache entry the scheduler's answer leads to
ScheduledEntry(f, status, now, ttl_minutes) ==
  LET refresh_seconds == ComputeNextRefreshSeconds(f, now, ttl_minutes)
  IN  IF refresh_seconds = NoRefresh THEN NoEntry
      ELSE [present |-> TRUE,
            status |-> IF f.status.isdict THEN f.status ELSE status,
            updated_at |-> now,
            next_check |-> now + refresh_seconds]

\* ------------------------------------------------------- the environment

\* Instants of the modelled day: departure at 10:00, arrival at 12:00.
DepA == 36000
ArrA == 43200

\* the airport directory: iata -> tz offset in seconds
DirectoryTz(iata) ==
  CASE iata = "DEL" -> 19800
    [] iata = "CPH" -> 3600
    [] OTHER -> NoTz

\* get_airport_tz(iata, options): the built-in table of airport_tz.py
GetAirportTz(iata) ==
  CASE iata = "DEL" -> 19800
    [] iata = "CPH" -> 3600
    [] OTHER -> NoTz

\* The records the ingestion layer holds.
FlightA ==
  [BlankFlight EXCEPT
     !.flight_key = "K1", !.status_state = "scheduled",
     !.dep = [NoSide EXCEPT !.scheduled = DepA, !.iata = "DEL", !.tz = 19800],
     !.arr = [NoSide EXCEPT !.scheduled = ArrA, !.iata = "CPH", !.tz = 3600]]

FlightB ==
  [BlankFlight EXCEPT
     !.flight_key = "K2", !.status_state = "scheduled",
     !.dep = [NoSide EXCEPT !.scheduled = DepA, !.iata = "CPH"],
     !.arr = [NoSide EXCEPT !.scheduled = ArrA, !.iata = "DEL", !.tz = 19800]]

\* a manual flight entered without its scheduled times
FlightC ==
  [BlankFlight EXCEPT
     !.flight_key = "K3",
     !.dep = [NoSide EXCEPT !.iata = "DEL", !.tz = 19800],
     !.arr = [NoSide EXCEPT !.iata = "CPH", !.tz = 3600]]

\* The instants at which a rebuild may start.
Instants == {ArrA - 600, ArrA + 1200, ArrA + 1260}

OptionSets ==
  [status_provider : {"flightradar24"},
   position_provider : {"same_as_status", "opensky"},
   status_ttl_minutes : {5},
   delay_grace_minutes : {10}]

\* The installations explored: a batch with the options it runs under.
Installations ==
  {[batch |-> b, options |-> o] :
     b \in {<<FlightA>>, <<FlightA, FlightB>>},
     o \in {x \in OptionSets : x.position_provider = "same_as_status"}}
  \cup {[batch |-> <<FlightC, FlightA>>, options |-> o] :
          o \in {x \in OptionSets : x.position_provider = "opensky"}}

\* What async_fetch_status may hand back for a record: nothing (also when the
\* call failed inside the adapter), a usable payload, a payload of the next
\* day's flight with the same number, an error with or without signal.
OkPayload(f, opts, st) ==
  [EmptyDict EXCEPT
     !.provider = ConfiguredProvider(opts), !.state = st, !.provider_state = st,
     !.dep_scheduled = IF f.dep.scheduled # NoTime THEN f.dep.scheduled ELSE DepA]

ProviderStates == {"en route", "arrived"}

Payloads(f, opts) ==
  {NoneStatus}
  \cup {OkPayload(f, opts, st) : st \in ProviderStates}
  \cup {[OkPayload(f, opts, "en route") EXCEPT
            !.dep_scheduled = @ + DaySeconds,
            !.dep_estimated = OkPayload(f, opts, "en route").dep_scheduled + DaySeconds + 600]}
  \cup {[EmptyDict EXCEPT !.provider = ConfiguredProvider(opts), !.error = "rate_limited"]}

\* Ingestion: a record of the batch with what the manual store has backfilled
Ingested(f, stored) ==
  [f EXCEPT
     !.dep_airport = IF "dep_airport" \in stored THEN f.dep.iata ELSE @,
     !.arr_airport = IF "arr_airport" \in stored THEN f.arr.iata ELSE @,
     !.scheduled_departure = IF "scheduled_departure" \in stored THEN f.dep.scheduled ELSE @,
     !.scheduled_arrival = IF "scheduled_arrival" \in stored THEN f.arr.scheduled ELSE @]

Ingest(b, store) ==
  AsTuple([n \in 1..Len(b) |-> Ingested(b[n], store[b[n].flight_key])])

\* ------------------------------------------------------------- the state

Tasks == {1, 2}

VARIABLES
  clock,                \* the wall clock (dt_util.utcnow())
  options,              \* entry.options
  batch,                \* what the itinerary providers return
  cache,                \* hass.data[DOMAIN]["status_cache"]
  force_status_refresh, \* hass.data[DOMAIN]["force_status_refresh"]
  manual_store,         \* fields async_update_manual_flight has written, per key
  pc,                   \* per rebuild task: "idle", "fetch" (suspended), "raised"
  now_,                 \* per task: now of its engine invocation
  flights,              \* per task: its flight list
  due,                  \* per task: indices of the due records
  di,                   \* per task: position in due
  next_times,           \* per task: next_times
  shown,                \* sensor._flights
  timer,                \* the instant of the pending refresh timer, or NoTime
  lastFetch,            \* per key: now of the invocation that last called the provider
  assumedSeen,          \* per key: published as assumed Arrived, nothing newer since
  resolved,             \* per key: its last fetch ended with no further refresh
  disturbances,         \* times a caller has set the force flag or cleared the cache
  returned,             \* what async_update_statuses last returned (line 466)
  stray,                \* instants of the pending timers the sensor holds no handle of
  removed,              \* async_will_remove_from_hass has run
  sq,                   \* scheduler query: flight, ttl and two instants
  sres                  \* scheduler answers for the two instants

engineVars ==
  <<clock, options, batch, cache, force_status_refresh, manual_store, pc, now_,
    flights, due, di, next_times, shown, timer, lastFetch, assumedSeen,
    resolved, disturbances, returned, stray, removed>>
schedVars == <<sq, sres>>

\* The preview services (services_preview.py).
VARIABLES
  preview,              \* the stored preview, NoPreview when cleared
  previews,             \* previews saved so far
  manual_records,       \* the previews async_add_manual_flight_record has persisted
  confirm               \* per confirm_add call: where it stands and the flight it holds

\* The directory lookups (directory.py).
VARIABLES
  blocked,              \* the providers on the rate-limit block list
  lookup,               \* the lookup under way: its kind and the providers still to ask
  invoked               \* the provider calls made: kind, provider, on the block list then

dirVars == <<blocked, lookup, invoked>>

serviceVars == <<preview, previews, manual_records, confirm, dirVars>>
vars == <<engineVars, schedVars, serviceVars>>

\* async_load_preview finding nothing
NoPreview == [id |-> 0, ready |-> FALSE, flight |-> "none"]

ConfirmIdle == [pc |-> "idle", f |-> NoPreview]

\* no get_airport or get_airline under way
NoLookup == [kind |-> "none", providers |-> <<>>]

ServicesIdle ==
  /\ blocked = {}
  /\ lookup = NoLookup
  /\ invoked = {}
  /\ preview = NoPreview
  /\ previews = 0
  /\ manual_records = <<>>
  /\ confirm = [i \in Tasks |-> ConfirmIdle]

\* Bound of the exploration: how often a caller sets the force flag or clears
\* the cache in one run.
MaxDisturbances == 1

EngineInit ==
  /\ ServicesIdle
  /\ clock = 0
  /\ \E inst \in Installations : options = inst.options /\ batch = inst.batch
  /\ cache = EmptyCache
  /\ force_status_refresh = FALSE
  /\ manual_store = [k \in Keys |-> {}]
  /\ pc = [i \in Tasks |-> "idle"]
  /\ now_ = [i \in Tasks |-> 0]
  /\ flights = [i \in Tasks |-> <<>>]
  /\ due = [i \in Tasks |-> <<>>]
  /\ di = [i \in Tasks |-> 1]
  /\ next_times = [i \in Tasks |-> {}]
  /\ shown = <<>>
  /\ timer = NoTime
  /\ lastFetch = [k \in Keys |-> NoTime]
  /\ assumedSeen = [k \in Keys |-> FALSE]
  /\ resolved = [k \in Keys |-> FALSE]
  /\ disturbances = 0
  /\ returned = [flights |-> <<>>, next_time |-> NoTime]
  /\ stray = {}
  /\ removed = FALSE

\* ---------------------------------------------------------- the engine

\* lines 330-336: skip the due records in a terminal state, evicting them
RECURSIVE SkipTerminal(_, _, _, _)
SkipTerminal(c, fl, d, k) ==
  IF k > Len(d) THEN [cache |-> c, di |-> k]
  ELSE IF TerminalSkip(fl[d[k]])
    THEN SkipTerminal(CachePop(c, fl[d[k]].flight_key), fl, d, k + 1)
  ELSE [cache |-> c, di |-> k]

\* lines 338-360: the airport lookups before a fetch; okDep, okArr tell
\* whether get_airport answered
WithAirportTz(f, okDep, okArr) ==
  [f EXCEPT
     !.dep = [f.dep EXCEPT !.tz = IF f.dep.iata # "" /\ @ = NoTz /\ okDep
                                  THEN DirectoryTz(f.dep.iata) ELSE @],
     !.arr = [f.arr EXCEPT !.tz = IF f.arr.iata # "" /\ @ = NoTz /\ okArr
                                  THEN DirectoryTz(f.arr.iata) ELSE @]]

NeedsLookup(side) == side.iata # "" /\ side.tz = NoTz

\* sensor._rebuild, lines 146-184: the post-processing of one flight
Published(f) ==
  [f EXCEPT
     !.dep = [f.dep EXCEPT !.tz = IF @ = NoTz THEN GetAirportTz(f.dep.iata) ELSE @],
     !.arr = [f.arr EXCEPT !.tz = IF @ = NoTz THEN GetAirportTz(f.arr.iata) ELSE @],
     !.delay_minutes = Dropped]

PublishedList(fl) == AsTuple([n \in 1..Len(fl) |-> Published(fl[n])])

IsAssumedArrived(f) == f.status_state = "Arrived" /\ f.status.error = "assumed_arrival"

\* Another task's record whose status is the cache's dict: it sees what is
\* written into that dict, and no longer holds the cache's dict once the
\* entry is gone.
SeenByOther(r, c) ==
  IF r.flight_key = "" \/ ~r.alias THEN r
  ELSE IF c[r.flight_key].present /\ c[r.flight_key].status.isdict
    THEN [r EXCEPT !.status = c[r.flight_key].status]
  ELSE [r EXCEPT !.alias = FALSE]

Holders(fl, c) == AsTuple([n \in 1..Len(fl) |-> SeenByOther(fl[n], c)])

\* The other tasks' lists (others) and the task's own (fl) after a step of
\* task i that leaves the cache as c.
OthersAfter(i, fl, others, c) ==
  [j \in Tasks |-> IF j = i THEN fl ELSE Holders(others[j], c)]

\* The engine from position k of its due list: up to the next provider call
\* (the task suspends) or to its return and the rest of sensor._rebuild.
\* others, sh, tm, seen and sy are the other tasks' lists, sensor._flights,
\* the pending timer, assumedSeen and the stray timers as the step has left
\* them so far.  Line 191 overwrites the handle: a timer another rebuild has
\* set since this one cancelled the handle stays pending without a handle.
\* okDep, okArr: whether get_airport answers the lookups before that call.
Proceed(i, c, fl, d, k, nt, others, sh, tm, seen, sy) ==
  \E r \in {SkipTerminal(c, fl, d, k)} :
      /\ cache' = r.cache
      /\ IF r.di > Len(d)
           THEN /\ pc' = [pc EXCEPT ![i] = "idle"]
                /\ flights' = OthersAfter(i, <<>>, others, r.cache)
                /\ due' = [due EXCEPT ![i] = <<>>]
                /\ di' = [di EXCEPT ![i] = 1]
                /\ next_times' = [next_times EXCEPT ![i] = {}]
                /\ shown' = PublishedList(fl)
                /\ timer' = IF SetMin(nt) # NoTime THEN SetMin(nt) ELSE tm
                /\ stray' = IF SetMin(nt) # NoTime /\ tm # NoTime
                            THEN sy \cup {tm} ELSE sy
                /\ assumedSeen' =
                     [key \in Keys |->
                        \/ seen[key]
                        \/ \E n \in 1..Len(fl) :
                             fl[n].flight_key = key /\ IsAssumedArrived(fl[n])]
                /\ returned' = [flights |-> fl, next_time |-> SetMin(nt)]
                /\ UNCHANGED lastFetch
           ELSE /\ pc' = [pc EXCEPT ![i] = "fetch"]
                /\ due' = [due EXCEPT ![i] = d]
                /\ di' = [di EXCEPT ![i] = r.di]
                /\ next_times' = [next_times EXCEPT ![i] = nt]
                /\ \E okDep, okArr \in BOOLEAN :
                     /\ NeedsLookup(fl[d[r.di]].dep) \/ okDep
                     /\ NeedsLookup(fl[d[r.di]].arr) \/ okArr
                     /\ flights' = OthersAfter(i,
                          [fl EXCEPT ![d[r.di]] = WithAirportTz(fl[d[r.di]], okDep, okArr)],
                          others, r.cache)
                /\ lastFetch' = [lastFetch EXCEPT ![fl[d[r.di]].flight_key] = now_'[i]]
                /\ shown' = Holders(sh, r.cache)
                /\ timer' = tm
                /\ stray' = sy
                /\ assumedSeen' = seen
                /\ UNCHANGED returned

\* sensor._rebuild at instant t, started with the stray timers sy, up to the
\* first await of the engine: the
\* timer is cancelled, the list is built, then the apply-cached pass (e), the
\* force flag and the due selection (d, nt) of async_update_statuses.
RebuildAfter(i, t, sy) ==
  /\ pc[i] \in {"idle", "raised"}
  /\ t >= clock
  /\ clock' = t
  /\ now_' = [now_ EXCEPT ![i] = t]
  /\ UNCHANGED <<options, batch, manual_store, resolved, disturbances, removed>>
  /\ \E fl0 \in {Ingest(batch, manual_store)} :
     \E e \in {ApplyCachedPass(cache, fl0, options, t)} :
       IF e.raised
         THEN /\ pc' = [pc EXCEPT ![i] = "raised"]
              /\ cache' = e.cache
              /\ flights' = OthersAfter(i, <<>>, flights, e.cache)
              /\ shown' = Holders(shown, e.cache)
              /\ timer' = NoTime
              /\ stray' = sy
              /\ UNCHANGED <<force_status_refresh, due, di, next_times,
                             lastFetch, assumedSeen, returned>>
         ELSE /\ force_status_refresh' = FALSE
              /\ \E d \in {DueList(e.cache, e.flights, force_status_refresh, t)},
                    nt \in {NotDueTimes(e.cache, e.flights, force_status_refresh, t)} :
                   Proceed(i, e.cache, e.flights, d, 1, nt,
                           flights, shown, NoTime, assumedSeen, sy)

Rebuild(i, t) == RebuildAfter(i, t, stray)

\* The manual-flights-updated signal: _on_manual_updated starts a rebuild,
\* as long as the dispatcher connection of line 84 stands.
OnManualUpdated(i, t) == ~removed /\ Rebuild(i, t)

\* The refresh timer fires: _scheduled_refresh starts a rebuild.
ScheduledRefresh(i, t) ==
  /\ timer # NoTime
  /\ t >= timer
  /\ Rebuild(i, t)

\* A holder of the cache's dict for key after the resumed task has merged
\* into f (sameObj: f's status is that dict) and left entry in the cache.
HolderAfterMerge(r, key, f, sameObj, entry) ==
  IF r.flight_key # key \/ ~r.alias THEN r
  ELSE IF sameObj THEN [r EXCEPT !.status = f.status, !.alias = entry.present]
  ELSE [r EXCEPT !.alias = FALSE]

\* async_update_statuses resumed with what async_fetch_status (and
\* async_fetch_position, when a distinct position provider is configured)
\* hand back, lines 366-463, and on to the next await or the return.  A call
\* that failed inside the adapter hands back None.
Resume(i, status, position, failed) ==
  /\ pc[i] = "fetch"
  /\ failed => ~status.isdict
  /\ position => DistinctPosition(options)
  /\ UNCHANGED <<clock, options, batch, force_status_refresh, now_, disturbances,
                 removed>>
  /\ \E n \in {due[i][di[i]]} :
     \E f \in {flights[i][n]} :
     \E m \in {MergeFetched(f, status, position, options, now_[i])} :
     \E f2 \in {WithDerived(m.f, options.delay_grace_minutes)} :
     \E entry \in {ScheduledEntry(f2, status, now_[i], options.status_ttl_minutes)} :
       LET key == f.flight_key
           \* m.f.alias: the record's status is the cache's dict
           hold(fl) == AsTuple([x \in 1..Len(fl) |->
                          HolderAfterMerge(fl[x], key, m.f, m.f.alias,
                                           IF m.raised THEN cache[key] ELSE entry)])
           seen == [assumedSeen EXCEPT ![key] = @ /\ ~(status.isdict /\ status.error = "")]
       IN  \E others \in {[j \in Tasks |-> hold(flights[j])]}, sh \in {hold(shown)} :
             IF m.raised
               THEN /\ pc' = [pc EXCEPT ![i] = "raised"]
                    /\ cache' = IF m.f.alias
                                THEN [cache EXCEPT
                                        ![key] = [cache[key] EXCEPT !.status = m.f.status]]
                                ELSE cache
                    /\ flights' = [others EXCEPT ![i] = <<>>]
                    /\ shown' = sh
                    /\ assumedSeen' = seen
                    /\ UNCHANGED <<manual_store, due, di, next_times, timer, lastFetch,
                                   resolved, returned, stray>>
               ELSE /\ manual_store' = [manual_store EXCEPT ![key] = @ \cup m.backfill]
                    /\ resolved' = [resolved EXCEPT ![key] = ~entry.present]
                    /\ \E c \in {[cache EXCEPT ![key] = entry]},
                          fl \in {[flights[i] EXCEPT ![n] =
                                     [f2 EXCEPT !.alias = f2.status.isdict /\ entry.present]]},
                          nt \in {IF entry.present
                                  THEN next_times[i] \cup {entry.next_check}
                                  ELSE next_times[i]} :
                         Proceed(i, c, fl, due[i], di[i] + 1, nt, others, sh, timer, seen, stray)

\* The answers the suspended task may get.
ProviderAnswers(i) ==
  /\ pc[i] = "fetch"
  /\ \E st \in Payloads(flights[i][due[i][di[i]]], options), pos, failed \in BOOLEAN :
       Resume(i, st, pos, failed)

\* A caller sets hass.data[DOMAIN]["force_status_refresh"].
SetForceRefresh ==
  /\ ~force_status_refresh
  /\ force_status_refresh' = TRUE
  /\ disturbances' = Min(disturbances + 1, MaxDisturbances)
  /\ UNCHANGED <<clock, options, batch, cache, manual_store, pc, now_, flights, due,
                 di, next_times, shown, timer, lastFetch, assumedSeen, resolved,
                 returned, stray, removed>>

\* clear_status_cache(hass, flight_key)
ClearStatusCache(flight_key) ==
  /\ cache # ClearedCache(cache, flight_key)
  /\ cache' = ClearedCache(cache, flight_key)
  /\ flights' = [j \in Tasks |-> Holders(flights[j], cache')]
  /\ shown' = Holders(shown, cache')
  /\ disturbances' = Min(disturbances + 1, MaxDisturbances)
  /\ UNCHANGED <<clock, options, batch, force_status_refresh, manual_store, pc, now_,
                 due, di, next_times, timer, lastFetch, assumedSeen, resolved,
                 returned, stray, removed>>

\* ------------------------------------------------- the scheduler on its own

\* the instants of the scheduler's flight: departure on day 4 at 0:00, arrival
\* at 2:00
SchedDep == 345600
SchedArr == 352800

NoQuery == [flight |-> BlankFlight, ttl |-> 0, now1 |-> 0, now2 |-> 0]

SchedDepBlocks ==
  {NoSide,
   [NoSide EXCEPT !.scheduled = SchedDep],
   [NoSide EXCEPT !.scheduled = SchedDep - 1800, !.estimated = SchedDep],
   [NoSide EXCEPT !.scheduled = SchedDep - 1800, !.estimated = SchedDep - 900,
                  !.actual = SchedDep]}

SchedArrBlocks ==
  {NoSide,
   [NoSide EXCEPT !.scheduled = SchedArr],
   [NoSide EXCEPT !.scheduled = SchedArr - 1800, !.estimated = SchedArr],
   [NoSide EXCEPT !.scheduled = SchedArr + 1800, !.actual = SchedArr]}

SchedStates ==
  {"", "scheduled", "en route", "diverted", "arrived", "Arrived", "landed",
   "cancelled", "canceled"}

\* offsets around every threshold of the policy, one second either side
SchedOffsets ==
  {-3 * DaySeconds, -2 * DaySeconds - 1, -7 * Hour, -6 * Hour - 1, -6 * Hour, -2 * Hour - 1, -2 * Hour, -1 * Hour - 1,
   -1 * Hour, -1, 0, 1, 2 * Hour - 1, 2 * Hour, 2 * Hour + 1,
   3 * Hour, 3 * Hour + 1, DaySeconds}

SchedNows == {SchedDep + o : o \in SchedOffsets}

EngineIdle ==
  /\ EngineInit
  /\ batch = <<FlightA>>

SchedInit ==
  /\ EngineIdle
  /\ sq \in
        {q \in [flight : {[BlankFlight EXCEPT !.flight_key = "K1", !.status_state = st,
                                              !.dep = d, !.arr = a] :
                            st \in SchedStates, d \in SchedDepBlocks, a \in SchedArrBlocks},
                ttl : {0, 1, 5, 12, 20, 45, 400, 800}, now1 : SchedNows, now2 : SchedNows] : q.now1 < q.now2}
  /\ sres = <<>>

\* compute_next_refresh_seconds called at the two instants of the query
SchedEval ==
  /\ sres = <<>>
  /\ sres' = <<ComputeNextRefreshSeconds(sq.flight, sq.now1, sq.ttl),
               ComputeNextRefreshSeconds(sq.flight, sq.now2, sq.ttl)>>
  /\ UNCHANGED <<sq, engineVars, serviceVars>>

SpecSched == SchedInit /\ [][SchedEval]_vars

\* ------------------------------------------------------ specifications

Init ==
  /\ EngineInit
  /\ sq = NoQuery
  /\ sres = <<>>

\* Callers disturb the engine between its invocations, MaxDisturbances times.
Quiet == disturbances < MaxDisturbances /\ \A i \in Tasks : pc[i] # "fetch"

\* One rebuild task at a time: the engine is never invoked concurrently.
\* Rebuilds start at strictly later instants of the clock.
Next ==
  \/ \E t \in Instants : t > clock /\ OnManualUpdated(1, t) /\ UNCHANGED <<schedVars, serviceVars>>
  \/ \E t \in Instants : t > clock /\ ScheduledRefresh(1, t) /\ UNCHANGED <<schedVars, serviceVars>>
  \/ ProviderAnswers(1) /\ UNCHANGED <<schedVars, serviceVars>>
  \/ Quiet /\ SetForceRefresh /\ UNCHANGED <<schedVars, serviceVars>>
  \/ \E k \in Keys \cup {""} : Quiet /\ ClearStatusCache(k) /\ UNCHANGED <<schedVars, serviceVars>>

Spec == Init /\ [][Next]_vars

\* ------------------------------------------ rebuilds started by two signals

\* _on_manual_updated and _scheduled_refresh create a task per signal and hold
\* no lock: a rebuild may start while another is suspended on a provider call.
InitConc ==
  /\ EngineIdle
  /\ sq = NoQuery
  /\ sres = <<>>

NextConc ==
  \/ \E i \in Tasks, t \in Instants :
       t > clock /\ OnManualUpdated(i, t) /\ UNCHANGED <<schedVars, serviceVars>>
  \/ \E i \in Tasks, t \in Instants :
       t > clock /\ ScheduledRefresh(i, t) /\ UNCHANGED <<schedVars, serviceVars>>
  \/ \E i \in Tasks : ProviderAnswers(i) /\ UNCHANGED <<schedVars, serviceVars>>

SpecConc == InitConc /\ [][NextConc]_vars

\* ----------------------------------------------- a provider that is silent

\* What a provider with nothing to say hands back: no payload, or an error
\* without any informative field.
SilentPayloads(opts) ==
  {NoneStatus,
   [EmptyDict EXCEPT !.provider = ConfiguredProvider(opts), !.error = "rate_limited"]}

SilentAnswers(i) ==
  /\ pc[i] = "fetch"
  /\ \E st \in SilentPayloads(options), failed \in BOOLEAN : Resume(i, st, FALSE, failed)

\* The instants of the silent provider's runs.  The clock advances up to
\* SilentLast, two hours after the arrival, which stands for every later
\* instant: rebuilds go on there for ever.
SilentLast == ArrA + 2 * Hour

NextSilent ==
  \/ \E t \in (Instants \cup {SilentLast}) :
       (t > clock \/ t = SilentLast) /\ OnManualUpdated(1, t) /\ UNCHANGED <<schedVars, serviceVars>>
  \/ \E t \in (Instants \cup {SilentLast}) :
       (t > clock \/ t = SilentLast) /\ ScheduledRefresh(1, t) /\ UNCHANGED <<schedVars, serviceVars>>
  \/ SilentAnswers(1) /\ UNCHANGED <<schedVars, serviceVars>>

\* Signals and timers keep starting rebuilds and every provider call returns.
SpecSilent == Init /\ [][NextSilent]_vars /\ WF_vars(NextSilent)

\* ---------------------------------------------------------------- claims

\* the record sensor._flights shows for a key
IsShown(key) == \E n \in 1..Len(shown) : shown[n].flight_key = key
Shown(key) == shown[CHOOSE n \in 1..Len(shown) : shown[n].flight_key = key]

TerminalStates == {"arrived", "cancelled", "canceled", "landed"}

\* C1: for a flight with a known departure and a fixed minimum interval, the
\* scheduler's interval at a later instant before departure is never larger
\* than its interval at an earlier one.
C1_IntervalNonIncreasing ==
  (/\ sres # <<>>
   /\ BestTime(sq.flight.dep) # NoTime
   /\ sq.now2 < BestTime(sq.flight.dep)
   /\ sres[1] # NoRefresh
   /\ sres[2] # NoRefresh)
  => sres[2] <= sres[1]

\* C2: without force flag and cache clear, two consecutive provider fetches
\* of one flight_key are at least max(60, status_ttl_minutes * 60) seconds
\* apart.
C2_FetchesApart ==
  [][\A k \in Keys :
       (lastFetch[k] # NoTime /\ lastFetch'[k] # lastFetch[k] /\ disturbances' = 0)
       => lastFetch'[k] - lastFetch[k] >= TtlSeconds(options.status_ttl_minutes)]_vars

\* C3: once a fetch of a flight has ended with the scheduler asking for no
\* further refresh and the entry evicted, no later cycle calls the provider
\* for that flight.
C3_ResolvedNotFetched ==
  [][\A k \in Keys :
       (resolved[k] /\ ~cache[k].present /\ disturbances' = 0)
       => lastFetch'[k] = lastFetch[k]]_vars

\* the record of position n as a rebuild step of task 1 leaves it: in the
\* task's list while it is suspended, in sensor._flights once it has returned
AfterStep(n) == IF pc'[1] = "fetch" THEN flights'[1][n] ELSE shown'[n]

\* the cached status is of another day than the record's scheduled departure,
\* both projected into the record's departure-airport timezone
CachedOtherDay(f, entry) ==
  /\ entry.present
  /\ entry.status.isdict
  /\ entry.status.dep_scheduled # NoTime
  /\ f.dep.scheduled # NoTime
  /\ DateInTz(entry.status.dep_scheduled, f.dep.tz) # DateInTz(f.dep.scheduled, f.dep.tz)

\* a rebuild step of task 1 whose apply-cached pass has run through
PassCompleted == clock' # clock /\ pc'[1] # "raised"

\* C4: in the apply-cached pass, a cached status whose departure date differs
\* from the record's scheduled departure date (in the departure airport's
\* timezone) has none of its fields applied to the record.
C4_MismatchNotApplied ==
  [][\A n \in 1..Len(batch) :
       LET f0 == Ingest(batch, manual_store)[n]
           entry == cache[f0.flight_key]
       IN  (PassCompleted /\ CachedOtherDay(f0, entry))
           => /\ AfterStep(n).dep.estimated = f0.dep.estimated
              /\ AfterStep(n).dep.actual = f0.dep.actual
              /\ AfterStep(n).arr.estimated = f0.arr.estimated
              /\ AfterStep(n).arr.actual = f0.arr.actual
              /\ AfterStep(n).status_state \in {f0.status_state, "Arrived", "Scheduled"}
              /\ AfterStep(n).status.state = ""
              /\ AfterStep(n).status.dep_scheduled = NoTime
              /\ AfterStep(n).status.dep_estimated = NoTime]_vars

\* C4 witness: a rebuild has returned and shows a record whose cached status
\* was replaced for its date.
C4_Witness ==
  /\ pc[1] = "idle"
  /\ \E n \in 1..Len(shown) :
       /\ shown[n].status.error = "date_mismatch"
       /\ cache[shown[n].flight_key].present
       /\ cache[shown[n].flight_key].status.dep_estimated # NoTime

\* C5: an engine invocation always runs to completion: no task ends with an
\* exception raised out of async_update_statuses.
C5_AlwaysCompletes == \A i \in Tasks : pc[i] # "raised"

\* C6: a failed status-provider call is treated as no payload for that
\* record only: the record gets the no_status marker and the batch goes on.
C6_FailedCallIsNoPayload ==
  [][\A pos \in BOOLEAN :
       (pc[1] = "fetch" /\ Resume(1, NoneStatus, pos, TRUE))
       => /\ pc'[1] # "raised"
          /\ AfterStep(due[1][di[1]]).status.error = "no_status"]_vars

\* C7: a tracked non-terminal flight whose provider stays silent is shown as
\* assumed Arrived in some cycle after its arrival plus 15 minutes.
C7_EventuallyAssumedArrived ==
  <>(IsShown("K1") /\ IsAssumedArrived(Shown("K1")))

\* C8: once a cycle has shown a flight as assumed Arrived, no later cycle in
\* which the provider reports nothing newer shows it in a non-terminal state.
C8_AssumedArrivalStable ==
  \A k \in Keys :
    (IsShown(k) /\ assumedSeen[k] /\ disturbances = 0)
    => Lower(Shown(k).status_state) \in TerminalStates

\* C9: no two engine invocations are suspended on a provider call at the
\* same time, so no two fetches of one flight_key are outstanding.
C9_OneInvocation == ~(pc[1] = "fetch" /\ pc[2] = "fetch")

\* C10: when the apply-cached pass rejects a cached status for its date, the
\* flight's cache entry is removed by the pass (so that the flight is due and
\* refetched in that cycle).
C10_MismatchEvicts ==
  [][\A n \in 1..Len(batch) :
       LET f0 == Ingest(batch, manual_store)[n]
           entry == cache[f0.flight_key]
       IN  (/\ PassCompleted
            /\ entry.present
            /\ entry.status.isdict
            /\ StatusDateMismatch(f0, entry.status))
           => ~cache'[f0.flight_key].present]_vars

\* the due record task 1 is suspended on
DueRecord == flights[1][due[1][di[1]]]

\* C11: a fetched status of another operating date than the record's
\* scheduled departure (in the departure airport's timezone) is rejected: its
\* fields are not applied to the record and no cache entry holds it after the
\* merge.
C11_FetchedMismatchRejected ==
  [][pc[1] = "fetch" =>
       \A st \in Payloads(DueRecord, options), pos \in BOOLEAN :
         (/\ st.isdict
          /\ CachedOtherDay(DueRecord, [NoEntry EXCEPT !.present = TRUE, !.status = st])
          /\ Resume(1, st, pos, FALSE))
         => /\ AfterStep(due[1][di[1]]).dep.estimated = DueRecord.dep.estimated
            /\ ~(/\ cache'[DueRecord.flight_key].present
                 /\ cache'[DueRecord.flight_key].status.dep_scheduled = st.dep_scheduled)]_vars

\* C12: a due record with a non-empty previous status whose fetch returns an
\* error payload without informative fields keeps its status_state, and its
\* status is the previous status with the error metadata written into it.
C12_NoSignalKeepsStatus ==
  [][pc[1] = "fetch" =>
       \A st \in Payloads(DueRecord, options), pos \in BOOLEAN :
         (/\ st.isdict
          /\ st.error # ""
          /\ ~HasSignal(st)
          /\ NonEmptyDict(PrevStatus(DueRecord))
          /\ Resume(1, st, pos, FALSE))
         => /\ pc'[1] # "raised"
            /\ AfterStep(due[1][di[1]]).status_state = DueRecord.status_state
            /\ AfterStep(due[1][di[1]]).status =
                 [DueRecord.status EXCEPT
                    !.error = st.error,
                    !.error_message = IF st.error_message # "" THEN st.error_message
                                      ELSE @]]_vars

\* C12 witness: a returned rebuild shows a record that still carries the
\* provider's last state next to the error of the fetch that said nothing.
C12_Witness ==
  /\ pc[1] = "idle"
  /\ \E n \in 1..Len(shown) :
       /\ shown[n].status.error = "rate_limited"
       /\ shown[n].status.provider_state # ""
       /\ shown[n].status_updated_at = clock

\* ------------------------------------------ the corrections on their own

\* a departure put off until after the scheduled arrival
HeurDepBlocks ==
  SchedDepBlocks \cup {[NoSide EXCEPT !.scheduled = SchedDep, !.estimated = SchedDep + 5 * Hour]}

HeurStatuses ==
  {NoneStatus,
   [EmptyDict EXCEPT !.provider = "flightradar24", !.state = "en route",
                     !.provider_state = "en route"],
   [EmptyDict EXCEPT !.error = "rate_limited"]}

\* instants either side of arrival + 15 minutes and of departure - 90 minutes
HeurNows ==
  {SchedArr + o : o \in {-1800, AssumedGraceMinutes * 60 - 1, AssumedGraceMinutes * 60,
                         AssumedGraceMinutes * 60 + 1, 1200, 2 * Hour}}
  \cup {SchedDep - o : o \in {FutureGraceMinutes * 60 + 1, FutureGraceMinutes * 60,
                              FutureGraceMinutes * 60 - 1, 3 * Hour}}

HeurUpdated ==
  {NoTime, SchedArr - Hour, SchedArr + AssumedGraceMinutes * 60 - 1,
   SchedArr + AssumedGraceMinutes * 60}

HeurInit ==
  /\ EngineIdle
  /\ sq \in
        [flight : {[BlankFlight EXCEPT !.flight_key = "K1", !.status_state = st, !.dep = d,
                                       !.arr = a, !.status = s, !.status_updated_at = u] :
                     st \in SchedStates, d \in HeurDepBlocks, a \in SchedArrBlocks,
                     s \in HeurStatuses, u \in HeurUpdated},
         ttl : {5}, now1 : HeurNows, now2 : {0}]
  /\ sres = <<>>

\* _apply_assumed_arrival alone, and the pair _coerce_state_by_time,
\* _apply_assumed_arrival as the engine calls them, on the queried record
HeurEval ==
  /\ sres = <<>>
  /\ sres' = <<ApplyAssumedArrival(sq.flight, sq.now1), Corrected(sq.flight, sq.now1)>>
  /\ UNCHANGED <<sq, engineVars, serviceVars>>

SpecHeur == HeurInit /\ [][HeurEval]_vars

\* C13: the assumed-arrival correction sets status_state to "Arrived" with the
\* assumed_arrival marker exactly when the state is not arrived, landed or
\* cancelled (either spelling), now is later than best arrival + 15 minutes and
\* status_updated_at is absent or earlier than arrival + 15 minutes; otherwise
\* state and status are unchanged.
C13_AssumedArrivalExact ==
  sres # <<>> =>
    LET f == sq.flight
        arr == BestTime(f.arr)
        applies ==
          /\ Lower(StateOf(f)) \notin TerminalStates
          /\ arr # NoTime
          /\ arr + 15 * 60 < sq.now1
          /\ (f.status_updated_at = NoTime \/ f.status_updated_at < arr + 15 * 60)
    IN  IF applies
          THEN sres[1].status_state = "Arrived" /\ sres[1].status.error = "assumed_arrival"
          ELSE sres[1].status_state = f.status_state /\ sres[1].status = f.status

\* C13 witness: the correction has turned an en-route record into Arrived.
C13_Witness ==
  /\ sres # <<>>
  /\ sq.flight.status_state = "en route"
  /\ sq.flight.status_updated_at # NoTime
  /\ sres[1].status_state = "Arrived"
  /\ sres[1].status.error = "assumed_arrival"

\* C14: after the corrections have been applied to a record, its status_state
\* is not en route, arrived or cancelled while its best-known departure is
\* still more than 90 minutes after now.
C14_NoImpossibleState ==
  sres # <<>> =>
    ~(/\ Lower(StateOf(sres[2])) \in {"en route", "arrived", "cancelled"}
      /\ BestTime(sres[2].dep) # NoTime
      /\ BestTime(sres[2].dep) - sq.now1 > 90 * 60)

\* C15: the scheduler returns None for every record in a terminal state
\* (landed, arrived, cancelled), whatever its instants are relative to now.
C15_TerminalNoRefresh ==
  (sres # <<>> /\ Lower(StateOf(sq.flight)) \in {"landed", "arrived", "cancelled"})
  => sres[1] = NoRefresh

\* C16: for a diverted record with a departure or an arrival instant the
\* scheduler returns max(minimum interval, 15 minutes).
C16_DivertedFrequent ==
  (/\ sres # <<>>
   /\ Lower(StateOf(sq.flight)) = "diverted"
   /\ (BestTime(sq.flight.dep) # NoTime \/ BestTime(sq.flight.arr) # NoTime))
  => sres[1] = Max(Max(60, sq.ttl * 60), 15 * 60)

\* C17: for a flight whose only known instant is a scheduled departure more
\* than 2 days after now, the scheduler returns at least 12 hours and at
\* least the minimum interval.
C17_FarFutureLongCadence ==
  (/\ sres # <<>>
   /\ sq.flight.dep = [NoSide EXCEPT !.scheduled = SchedDep]
   /\ sq.flight.arr = NoSide
   /\ SchedDep - sq.now1 > 2 * 86400)
  => /\ sres[1] # NoRefresh
     /\ sres[1] >= 12 * 60 * 60
     /\ sres[1] >= Max(60, sq.ttl * 60)

\* C18: every interval the scheduler returns is at least the minimum
\* interval: status_ttl_minutes * 60 seconds and never below 60 seconds.
C18_IntervalAtLeastMinimum ==
  sres # <<>> =>
    \A n \in 1..2 :
      sres[n] # NoRefresh => (sres[n] >= sq.ttl * 60 /\ sres[n] >= 60)

\* C18 witness: the scheduler has returned the minimum interval itself, above
\* every cadence of the policy.
C18_Witness ==
  /\ sres # <<>>
  /\ sq.ttl = 800
  /\ sres[1] = 800 * 60
  /\ sres[2] = 800 * 60

\* the instant of the scheduler's n-th answer

\* C19: the scheduler returns None when the best arrival instant is more than
\* 1 hour before now, regardless of state, departure and minimum interval,
\* and when neither a departure nor an arrival instant is known.
C19_PastOrUnknownNoRefresh ==
  sres # <<>> =>
    LET dep == BestTime(sq.flight.dep)
        arr == BestTime(sq.flight.arr)
    IN  \A n \in 1..2 :
          ((arr # NoTime /\ (IF n = 1 THEN sq.now1 ELSE sq.now2) - arr > 60 * 60) \/ (dep = NoTime /\ arr = NoTime))
          => sres[n] = NoRefresh

\* C19 witness: an en-route record whose arrival is more than an hour past
\* has been given no further refresh.
C19_Witness ==
  /\ sres # <<>>
  /\ sq.flight.status_state = "en route"
  /\ BestTime(sq.flight.arr) # NoTime
  /\ sq.now1 > BestTime(sq.flight.arr) + Hour
  /\ sq.now1 <= BestTime(sq.flight.arr) + Hour + 1
  /\ sres[1] = NoRefresh
  /\ sres[2] = NoRefresh

\* ------------------------------------------ a change of the status provider

\* The options flow stores another status_provider in entry.options; the
\* next rebuild reads it (sensor._rebuild takes dict(self.entry.options)).
\* An invocation under way keeps the copy it was started with.
SetStatusProvider(p) ==
  /\ options.status_provider # p
  /\ options' = [options EXCEPT !.status_provider = p]
  /\ disturbances' = Min(disturbances + 1, MaxDisturbances)
  /\ UNCHANGED <<clock, batch, cache, force_status_refresh, manual_store, pc, now_,
                 flights, due, di, next_times, shown, timer, lastFetch, assumedSeen,
                 resolved, returned, stray, removed>>

NextProv ==
  \/ Next
  \/ \E p \in {"flightradar24", "airlabs"} : Quiet /\ SetStatusProvider(p) /\ UNCHANGED <<schedVars, serviceVars>>

SpecProv == Init /\ [][NextProv]_vars

\* the cached status of the record names a provider other than the configured
CachedOtherProvider(entry, opts) ==
  /\ entry.present
  /\ entry.status.isdict
  /\ Lower(entry.status.provider) \notin {"", ConfiguredProvider(opts)}

\* C20: in the apply-cached pass, a cache entry whose status names a provider
\* other than the configured one is evicted, none of its fields is applied to
\* the record, and the record is due in the same cycle: the invocation goes on
\* to fetch with the record in its due list.
C20_OtherProviderEvicted ==
  [][clock' # clock =>
       \A n \in 1..Len(batch) :
         LET f0 == Ingest(batch, manual_store)[n]
         IN  CachedOtherProvider(cache[f0.flight_key], options)
             => /\ ~cache'[f0.flight_key].present
                /\ pc'[1] = "fetch"
                /\ \E x \in 1..Len(due'[1]) : due'[1][x] = n
                /\ flights'[1][n].status = f0.status
                /\ flights'[1][n].status_state = f0.status_state
                /\ flights'[1][n].dep.estimated = f0.dep.estimated
                /\ flights'[1][n].arr.estimated = f0.arr.estimated]_vars

\* a rebuild has met an entry of the other provider and has evicted it
C20_Witness ==
  /\ pc[1] = "fetch"
  /\ options.status_provider = "airlabs"
  /\ lastFetch["K1"] = now_[1]
  /\ ~cache["K1"].present
  /\ \E n \in 1..Len(shown) :
       shown[n].flight_key = "K1" /\ shown[n].status.provider = "flightradar24"

\* ------------------------------------------------ what a cycle hands back

\* the records of the last returned list that have a flight_key
ReturnedKeyed == {n \in 1..Len(returned.flights) : returned.flights[n].flight_key # ""}

\* C21: after every engine cycle each record with a flight_key carries
\* delay_status, delay_status_key, delay_minutes and the four duration fields
\* equal to the derived-field computation on the record's final status_state
\* and schedule blocks, whichever branch the record took.
C21_DerivedFieldsCurrent ==
  \A n \in ReturnedKeyed :
    LET r == returned.flights[n]
        d == ComputeDelayStatus(r, options.delay_grace_minutes)
        u == ComputeDurations(r)
    IN  /\ r.delay_status = d[1]
        /\ r.delay_status_key = DelayKey(d[1])
        /\ r.delay_minutes = d[2]
        /\ r.duration_scheduled_minutes = u.duration_scheduled_minutes
        /\ r.duration_estimated_minutes = u.duration_estimated_minutes
        /\ r.duration_actual_minutes = u.duration_actual_minutes
        /\ r.duration_minutes = u.duration_minutes

\* a cycle has returned a record it skipped as terminal, fetched in an
\* earlier cycle, and the record carries its derived fields
C21_Witness ==
  /\ pc[1] = "idle"
  /\ \E n \in ReturnedKeyed :
       /\ LowerState(returned.flights[n]) = "arrived"
       /\ lastFetch[returned.flights[n].flight_key] \notin {NoTime, now_[1]}
       /\ ~cache[returned.flights[n].flight_key].present
       /\ returned.flights[n].delay_status_key = "unknown"
       /\ returned.flights[n].duration_minutes = 120

\* the step ends an engine cycle: async_update_statuses returns
CycleReturns == pc'[1] = "idle" /\ (pc[1] = "fetch" \/ clock' # clock)

\* the next_check instants of the batch's records that have a cache entry in c
EntriesLeft(c) ==
  {c[batch[n].flight_key].next_check :
     n \in {m \in 1..Len(batch) : batch[m].flight_key # "" /\ c[batch[m].flight_key].present}}

\* C22: the instant a cycle returns is the minimum of the next_check instants
\* of the batch's records that have a cache entry at the end of the cycle, and
\* it is None exactly when no record of the batch has an entry left.
C22_ReturnsEarliestCheck ==
  [][CycleReturns =>
       /\ returned'.next_time = SetMin(EntriesLeft(cache'))
       /\ (returned'.next_time = NoTime) <=> (EntriesLeft(cache') = {})]_vars

\* a cycle has returned the stored next_check of a record that was not due,
\* earlier than the next_check of the record it has refreshed
C22_Witness ==
  /\ pc[1] = "idle"
  /\ returned.next_time # NoTime
  /\ \E k1, k2 \in Keys :
       /\ cache[k1].present /\ cache[k2].present
       /\ cache[k1].updated_at < now_[1]
       /\ cache[k2].updated_at = now_[1]
       /\ returned.next_time = cache[k1].next_check
       /\ cache[k1].next_check < cache[k2].next_check

\* the record of index n as the resumed invocation leaves it
Refreshed(n) == IF pc'[1] = "fetch" THEN flights'[1][n] ELSE returned'.flights[n]

\* C23: for each due, non-terminal record the engine calls the scheduler
\* after its fetch: on None the record's cache entry is absent, otherwise the
\* cache holds for its flight_key exactly the record's status, updated_at =
\* now and next_check = now + the interval, which is at least
\* max(60, status_ttl_minutes * 60) seconds after updated_at.
C23_EntryAfterFetch ==
  [][pc[1] = "fetch" =>
       /\ pc'[1] # "raised"
       /\ LET r == Refreshed(due[1][di[1]])
              entry == cache'[DueRecord.flight_key]
              secs == ComputeNextRefreshSeconds(r, now_[1], options.status_ttl_minutes)
          IN  IF secs = NoRefresh THEN ~entry.present
              ELSE /\ entry = [present |-> TRUE, status |-> r.status,
                               updated_at |-> now_[1], next_check |-> now_[1] + secs]
                   /\ entry.next_check >=
                        entry.updated_at + Max(60, options.status_ttl_minutes * 60)]_vars

\* the cache as the apply-cached pass of a rebuild starting at t leaves it
CacheAtSelection(t) == ApplyCachedPass(cache, Ingest(batch, manual_store), options, t).cache

\* the claim's condition for the record of key to be due at t
DueCondition(key, t) ==
  \/ force_status_refresh
  \/ ~CacheAtSelection(t)[key].present
  \/ CacheAtSelection(t)[key].next_check = NoTime
  \/ t >= CacheAtSelection(t)[key].next_check

\* Record n was selected as due by the rebuild step: it is in the due list of
\* the invocation now suspended, or the invocation has returned and the
\* record's entry is gone (a due record that is not fetched is skipped as
\* terminal and evicted).
SelectedAsDue(n) ==
  IF pc'[1] = "fetch" THEN \E x \in 1..Len(due'[1]) : due'[1][x] = n
  ELSE ~cache'[batch[n].flight_key].present

C25_ForceFlagOneShot ==
  [][clock' # clock =>
       /\ ~force_status_refresh'
       /\ force_status_refresh =>
            \A n \in 1..Len(batch) : batch[n].flight_key # "" => SelectedAsDue(n)]_vars

\* a cycle started with the flag set has every record of a batch of two in
\* its due list although their next_check is in the future
C25_Witness ==
  /\ pc[1] = "fetch"
  /\ ~force_status_refresh
  /\ disturbances = 1
  /\ Len(due[1]) = 2
  /\ \A n \in 1..2 :
       /\ cache[flights[1][n].flight_key].present
       /\ cache[flights[1][n].flight_key].next_check > now_[1]

\* the coarse states the fetch loop takes as terminal (claim C26)
SettledStates == {"arrived", "landed", "cancelled"}

\* record n was due in the cycle that the step lets return
WasDue(n) ==
  IF pc[1] = "fetch" THEN \E x \in 1..Len(due[1]) : due[1][x] = n
  ELSE DueCondition(batch[n].flight_key, clock')

C27_NoPayloadKeepsRecord ==
  [][pc[1] = "fetch" =>
       \A failed \in BOOLEAN :
         Resume(1, NoneStatus, FALSE, failed)
         => /\ pc'[1] # "raised"
            /\ Refreshed(due[1][di[1]]).status_state = DueRecord.status_state
            /\ Refreshed(due[1][di[1]]).dep = DueRecord.dep
            /\ Refreshed(due[1][di[1]]).arr = DueRecord.arr
            /\ Refreshed(due[1][di[1]]).status =
                 [PrevStatus(DueRecord) EXCEPT
                    !.provider = IF @ = "" THEN ConfiguredProvider(options) ELSE @,
                    !.error = "no_status",
                    !.error_message = "no_status"]]_vars

\* a record fetched earlier with a payload has had no payload in the last
\* cycle: it shows the marker on top of what was known
C27_Witness ==
  /\ pc[1] = "idle"
  /\ \E n \in ReturnedKeyed :
       /\ returned.flights[n].status.error = "no_status"
       /\ returned.flights[n].status.provider_state = "en route"
       /\ returned.flights[n].status_updated_at = now_[1]
       /\ LowerState(returned.flights[n]) = "en route"

\* C28: whenever a position provider distinct from the status provider is
\* configured and returns a payload for a due record, the payload is under
\* the position key of the record's status after the cycle, whatever the
\* status provider returned for the record.
C28_PositionMerged ==
  [][pc[1] = "fetch" =>
       \A st \in Payloads(DueRecord, options), failed \in BOOLEAN :
         Resume(1, st, TRUE, failed)
         => /\ pc'[1] # "raised"
            /\ Refreshed(due[1][di[1]]).status.isdict
            /\ Refreshed(due[1][di[1]]).status.position
            /\ Refreshed(due[1][di[1]]).status.position_provider = PositionProvider(options)]_vars

\* a fetched payload without error has taken the position payload
C28_Witness ==
  /\ pc[1] = "idle"
  /\ DistinctPosition(options)
  /\ \E n \in ReturnedKeyed :
       /\ returned.flights[n].status.position
       /\ returned.flights[n].status.position_provider = "opensky"
       /\ returned.flights[n].status_updated_at = now_[1]

\* C29: for a due record sourced from manual entry whose airport codes or
\* scheduled instants were missing, after a status payload has been fetched
\* and applied the newly observed values are written through to the manual
\* store: one update for the flight_key carrying exactly the missing fields.
C29_BackfillAfterStatus ==
  [][pc[1] = "fetch" =>
       \A st \in Payloads(DueRecord, options), pos \in BOOLEAN :
         (/\ st.isdict
          /\ st.error = ""
          /\ IsManual(DueRecord)
          /\ BackfillFields(DueRecord) # {}
          /\ Resume(1, st, pos, FALSE))
         => manual_store'[DueRecord.flight_key] =
              manual_store[DueRecord.flight_key] \cup BackfillFields(DueRecord)]_vars

\* ------------------------------------------- the delay computation on its own

\* the scheduled instants of the delay queries
DelayDep == 36000
DelayArr == 43200

\* seconds late of an estimated and of an actual instant: around the half
\* minutes either side of a grace of 10 minutes, and the 17 minutes of a
\* plainly late flight

DelayBlocks(sched) ==
  {[NoSide EXCEPT !.scheduled = s, !.estimated = e, !.actual = a] :
     s \in {NoTime, sched},
     e \in {NoTime} \cup {sched + x : x \in {0, 570, 630, 660}},
     a \in {NoTime} \cup {sched + x : x \in {-120, 90, 600, 1020}}}

DelayGraces == {0, 10}

DelayInit ==
  /\ EngineIdle
  /\ sq \in
        [flight : {[BlankFlight EXCEPT !.flight_key = "K1", !.status_state = st,
                                       !.dep = d, !.arr = a] :
                     st \in {"", "scheduled", "en route", "cancelled", "Canceled"}, d \in DelayBlocks(DelayDep), a \in DelayBlocks(DelayArr)},
         grace : DelayGraces]
  /\ sres = <<>>

\* _compute_delay_status called on the query
DelayEval ==
  /\ sres = <<>>
  /\ sres' = ComputeDelayStatus(sq.flight, sq.grace)
  /\ UNCHANGED <<sq, engineVars, serviceVars>>

SpecDelay == DelayInit /\ [][DelayEval]_vars

\* the reference pair of the claim: the block whose scheduled and
\* actual-or-estimated instants both exist, arrival first
HasPair(block) == block.scheduled # NoTime /\ ActualOrEstimated(block) # NoTime

\* seconds between the reference instants of the record
ReferenceLate(flight) ==
  LET block == IF HasPair(flight.arr) THEN flight.arr ELSE flight.dep
  IN  ActualOrEstimated(block) - block.scheduled

\* res is what the claim's rule yields for the record: minutes the whole
\* number next to the reference difference, Delayed exactly above the grace
DelayRule(flight, grace, res) ==
  IF ~HasPair(flight.arr) /\ ~HasPair(flight.dep) THEN res = <<"Unknown", NoMinutes>>
  ELSE /\ res[2] # NoMinutes
       /\ 60 * res[2] - 30 <= ReferenceLate(flight)
       /\ ReferenceLate(flight) <= 60 * res[2] + 30
       /\ res[1] = IF res[2] > grace THEN "Delayed" ELSE "On Time"

\* C30: the delay computation yields minutes = reference actual-or-estimated
\* minus reference scheduled instant, rounded to whole minutes, labelled
\* Delayed exactly when minutes > grace and On Time otherwise; the reference
\* pair is the arrival pair when both arrival values exist, else the departure
\* pair; with no complete pair the result is Unknown with null minutes.
C30_DelayRule ==
  sres # <<>> => DelayRule(sq.flight, sq.grace, sres)

\* C30 as it holds: the rule applies to a record whose state is not cancelled
\* or canceled; for those the result is Cancelled with null minutes, whatever
\* the instants.
C30_DelayRuleUnlessCancelled ==
  sres # <<>> =>
    IF LowerState(sq.flight) \in {"cancelled", "canceled"}
      THEN sres = <<"Cancelled", NoMinutes>>
      ELSE DelayRule(sq.flight, sq.grace, sres)

\* the arrival pair decides although the departure pair says otherwise: an
\* arrival exactly the grace late is On Time with 10 minutes
C30_Witness ==
  /\ sres = <<"On Time", 10>>
  /\ sq.grace = 10
  /\ sq.flight.arr.actual = DelayArr + 600
  /\ sq.flight.arr.scheduled = DelayArr
  /\ sq.flight.dep.scheduled = DelayDep
  /\ sq.flight.dep.actual = DelayDep + 1020

\* C31: whenever a record's status_state is cancelled or canceled, in any
\* letter case, the delay computation returns Cancelled with null minutes,
\* whatever instants the record holds.
C31_CancelledOverrides ==
  (sres # <<>> /\ sq.flight.status_state \in {"cancelled", "Canceled"})
    => sres = <<"Cancelled", NoMinutes>>

\* a canceled record with a complete arrival pair 17 minutes late
C31_Witness ==
  /\ sres = <<"Cancelled", NoMinutes>>
  /\ sq.flight.status_state = "Canceled"
  /\ sq.flight.arr.scheduled = DelayArr
  /\ sq.flight.arr.actual = DelayArr + 1020
  /\ sq.grace = 10

\* --------------------------------------- the duration computation on its own

\* an arrival scheduled before the departure: swapped or garbage timestamps
DurSwappedArr == DelayDep - 600

DurInit ==
  /\ EngineIdle
  /\ sq \in
        [flight : {[BlankFlight EXCEPT !.flight_key = "K1", !.status_state = "scheduled",
                                       !.dep = d, !.arr = a] :
                     d \in DelayBlocks(DelayDep),
                     a \in DelayBlocks(DelayArr) \cup DelayBlocks(DurSwappedArr)},
         grace : {10}]
  /\ sres = <<>>

\* _compute_durations called on the query
DurEval ==
  /\ sres = <<>>
  /\ sres' = <<ComputeDurations(sq.flight)>>
  /\ UNCHANGED <<sq, engineVars, serviceVars>>

SpecDur == DurInit /\ [][DurEval]_vars

\* m is the duration the claim gives for the endpoints: null when one is
\* missing or the arrival precedes the departure, else the whole number of
\* minutes next to the difference
DurationRule(dep_dt, arr_dt, m) ==
  IF dep_dt = NoTime \/ arr_dt = NoTime \/ arr_dt < dep_dt THEN m = NoMinutes
  ELSE /\ m # NoMinutes
       /\ m >= 0
       /\ 60 * m - 30 <= arr_dt - dep_dt
       /\ arr_dt - dep_dt <= 60 * m + 30

\* C32: each of the scheduled, estimated (actual-or-estimated on both ends)
\* and actual (actual-only on both ends) durations is null exactly when one of
\* its endpoints is missing or arrival precedes departure, and otherwise the
\* non-negative whole-minute difference; duration_minutes is the actual
\* duration if non-null, else the estimated one, else the scheduled one.
C32_Durations ==
  sres # <<>> =>
    LET f == sq.flight
        u == sres[1]
    IN  /\ DurationRule(f.dep.scheduled, f.arr.scheduled, u.duration_scheduled_minutes)
        /\ DurationRule(ActualOrEstimated(f.dep), ActualOrEstimated(f.arr),
                        u.duration_estimated_minutes)
        /\ DurationRule(f.dep.actual, f.arr.actual, u.duration_actual_minutes)
        /\ u.duration_minutes =
             IF u.duration_actual_minutes # NoMinutes THEN u.duration_actual_minutes
             ELSE IF u.duration_estimated_minutes # NoMinutes
               THEN u.duration_estimated_minutes
             ELSE u.duration_scheduled_minutes

\* the scheduled arrival precedes the scheduled departure, the actual
\* instants give nine minutes, which is the best duration
C32_Witness ==
  /\ sres # <<>>
  /\ sq.flight.arr.scheduled = DurSwappedArr
  /\ sq.flight.dep.scheduled = DelayDep
  /\ sres[1].duration_scheduled_minutes = NoMinutes
  /\ sres[1].duration_actual_minutes = 9
  /\ sres[1].duration_minutes = 9

\* --------------------------------------- the derived-field block run twice

\* derived fields a record may come with: none, or those of an earlier cycle
\* that no longer fit its blocks
StaleDerived(f) ==
  [f EXCEPT !.delay_status = "Delayed", !.delay_status_key = "delayed",
            !.delay_minutes = 45, !.duration_scheduled_minutes = 300,
            !.duration_estimated_minutes = 310, !.duration_actual_minutes = 320,
            !.duration_minutes = 320]

TwiceInit ==
  /\ EngineIdle
  /\ sq \in
        [flight : {IF stale THEN StaleDerived(f) ELSE f :
                     f \in {[BlankFlight EXCEPT !.flight_key = "K1", !.status_state = st,
                                                !.dep = d, !.arr = a] :
                              st \in {"scheduled", "cancelled"},
                              d \in DelayBlocks(DelayDep), a \in DelayBlocks(DelayArr)},
                     stale \in BOOLEAN},
         grace : DelayGraces]
  /\ sres = <<>>

\* lines 296-300 run on the record, then once more on what they left
TwiceEval ==
  /\ sres = <<>>
  /\ \E once \in {WithDerived(sq.flight, sq.grace)} :
       sres' = <<once, WithDerived(once, sq.grace)>>
  /\ UNCHANGED <<sq, engineVars, serviceVars>>

SpecTwice == TwiceInit /\ [][TwiceEval]_vars

\* C33: the derived-field computation is idempotent: run twice in a row on a
\* record whose status_state and schedule blocks did not change it yields the
\* same delay_status, delay_minutes and four duration fields, and the fields
\* the record came with do not matter.
C33_DerivedIdempotent ==
  sres # <<>> =>
    /\ sres[2] = sres[1]
    /\ sres[1].delay_status = ComputeDelayStatus(sq.flight, sq.grace)[1]
    /\ sres[1].delay_minutes = ComputeDelayStatus(sq.flight, sq.grace)[2]
    /\ sres[1].duration_minutes = ComputeDurations(sq.flight).duration_minutes

\* a record that came with stale derived fields is 17 minutes late both times
C33_Witness ==
  /\ sres # <<>>
  /\ sq.flight.delay_minutes = 45
  /\ sres[1].delay_status = "Delayed"
  /\ sres[1].delay_minutes = 17
  /\ sres[2].delay_status = "Delayed"
  /\ sres[2].delay_minutes = 17

\* ------------------------------------------------- the preview services

\* previews saved in one run
MaxPreviews == 2

\* What a preview holds as its flight: nothing (bad input), a flight lacking
\* an airport or the scheduled departure, or a flight with all of them.

\* _preview_complete(flight)[0]
PreviewComplete(flight) == flight = "complete"

\* _svc_preview: the preview saved at line 148, 167 or 250.  A preview with a
\* flight gets ready from _preview_complete when the lookup answered
\* (line 227), FALSE otherwise (line 240).
SvcPreview(flight, answered) ==
  /\ previews < MaxPreviews
  /\ flight = "none" => ~answered
  /\ previews' = previews + 1
  /\ preview' = [id |-> previews + 1,
                 ready |-> answered /\ PreviewComplete(flight),
                 flight |-> flight]
  /\ UNCHANGED <<manual_records, confirm>>

\* _svc_confirm, lines 261-281: load the preview, return unless it is ready
\* and holds a flight, else call async_add_manual_flight_record
SvcConfirm(i) ==
  /\ confirm[i].pc = "idle"
  /\ IF preview.ready /\ preview.flight # "none"
       THEN confirm' = [confirm EXCEPT ![i] = [pc |-> "adding", f |-> preview]]
       ELSE UNCHANGED confirm
  /\ UNCHANGED <<preview, previews, manual_records>>

\* lines 281-297: the add returns (on to async_clear_preview) or raises
SvcConfirmAdded(i, ok) ==
  /\ confirm[i].pc = "adding"
  /\ IF ok
       THEN /\ manual_records' = Append(manual_records, confirm[i].f)
            /\ confirm' = [confirm EXCEPT ![i].pc = "clearing"]
       ELSE /\ confirm' = [confirm EXCEPT ![i] = ConfirmIdle]
            /\ UNCHANGED manual_records
  /\ UNCHANGED <<preview, previews>>

\* lines 288-289: async_clear_preview
SvcConfirmCleared(i) ==
  /\ confirm[i].pc = "clearing"
  /\ preview' = NoPreview
  /\ confirm' = [confirm EXCEPT ![i] = ConfirmIdle]
  /\ UNCHANGED <<previews, manual_records>>

\* _svc_clear
SvcClear ==
  /\ preview # NoPreview
  /\ preview' = NoPreview
  /\ UNCHANGED <<previews, manual_records, confirm>>

\* Service calls are handled as they come: a confirm_add may be called while
\* another one is waiting for the store.
NextPreview ==
  \/ \E fl \in {"none", "partial", "complete"}, answered \in BOOLEAN :
       SvcPreview(fl, answered) /\ UNCHANGED <<engineVars, schedVars, dirVars>>
  \/ \E i \in Tasks : SvcConfirm(i) /\ UNCHANGED <<engineVars, schedVars, dirVars>>
  \/ \E i \in Tasks, ok \in BOOLEAN :
       SvcConfirmAdded(i, ok) /\ UNCHANGED <<engineVars, schedVars, dirVars>>
  \/ \E i \in Tasks : SvcConfirmCleared(i) /\ UNCHANGED <<engineVars, schedVars, dirVars>>
  \/ SvcClear /\ UNCHANGED <<engineVars, schedVars, dirVars>>

SpecPreview == InitConc /\ [][NextPreview]_vars

\* C34: a preview is persisted as a manual flight at most once and only when
\* complete: every persisted record comes from a preview that was marked
\* ready and held a complete flight, and no preview is persisted twice.
C34_PreviewAddedOnce ==
  /\ \A x \in 1..Len(manual_records) :
       manual_records[x].ready /\ PreviewComplete(manual_records[x].flight)
  /\ \A x, y \in 1..Len(manual_records) :
       x # y => manual_records[x].id # manual_records[y].id

\* the apply-cached pass of a rebuild at t over the whole batch, and over
\* record n of the batch on its own

\* C35: in the apply-cached pass the outcome for one record (applied,
\* evicted, rejected or error) depends only on the record, its own cache
\* entry, the configuration and now: it is the outcome of the pass over that
\* record alone, whatever records come before it in the batch.
C35_PassRecordwise ==
  [][clock' # clock =>
       \A n \in 1..Len(batch) :
         \E whole \in {ApplyCachedPass(cache, Ingest(batch, manual_store), options, clock')}, alone \in {ApplyCachedPass(cache, <<Ingest(batch, manual_store)[n]>>, options, clock')} :
           /\ alone.raised => whole.raised
           /\ (~whole.raised /\ batch[n].flight_key # "")
                => /\ whole.flights[n] = alone.flights[1]
                   /\ whole.cache[batch[n].flight_key] = alone.cache[batch[n].flight_key]]_vars

\* C36: every non-null next-refresh instant an engine cycle returns is
\* strictly later than that cycle's now.
C36_NextRefreshLater ==
  [][CycleReturns =>
       (returned'.next_time # NoTime => returned'.next_time > now_'[1])]_vars

\* a cycle has returned the next_check an earlier cycle stored for a record
\* that was not due: less than the shortest hour-long interval ahead
C36_Witness ==
  /\ pc[1] = "idle"
  /\ returned.next_time # NoTime
  /\ returned.next_time > now_[1]
  /\ returned.next_time < now_[1] + Hour
  /\ \E k \in Keys :
       /\ cache[k].present
       /\ cache[k].next_check = returned.next_time
       /\ cache[k].updated_at < now_[1]
       /\ cache[k].next_check - cache[k].updated_at = Hour

\* ------------------------------------------------- the sensor's timers

\* async_will_remove_from_hass, sensor.py lines 86-92: the dispatcher
\* connection is dropped and the timer the handle stands for is cancelled.
WillRemove ==
  /\ ~removed
  /\ removed' = TRUE
  /\ timer' = NoTime
  /\ UNCHANGED <<clock, options, batch, cache, force_status_refresh, manual_store,
                 pc, now_, flights, due, di, next_times, shown, lastFetch,
                 assumedSeen, resolved, disturbances, returned, stray>>

\* A pending timer the sensor holds no handle of fires: _scheduled_refresh
\* starts a rebuild.
StrayRefresh(i, t) ==
  \E s \in stray : t >= s /\ RebuildAfter(i, t, stray \ {s})

NextSensor ==
  \/ \E i \in Tasks, t \in Instants :
       t > clock /\ OnManualUpdated(i, t) /\ UNCHANGED <<schedVars, serviceVars>>
  \/ \E i \in Tasks, t \in Instants :
       t > clock /\ ScheduledRefresh(i, t) /\ UNCHANGED <<schedVars, serviceVars>>
  \/ \E i \in Tasks, t \in Instants :
       t > clock /\ StrayRefresh(i, t) /\ UNCHANGED <<schedVars, serviceVars>>
  \/ \E i \in Tasks : ProviderAnswers(i) /\ UNCHANGED <<schedVars, serviceVars>>
  \/ WillRemove /\ UNCHANGED <<schedVars, serviceVars>>

SpecSensor == InitConc /\ [][NextSensor]_vars

\* C37: whatever rebuilds have run, overlapping or not, every pending refresh
\* timer is the one whose cancel handle the sensor holds, so that removing the
\* entity leaves no timer pending.
C37_TimerHeld == stray = {}

C37_Witness ==
  /\ removed
  /\ timer = NoTime
  /\ stray # {}
  /\ \A i \in Tasks : pc[i] = "idle"

\* ------------------------------------------- what the sensor publishes

\* C38: every flight the sensor publishes after a rebuild carries the derived
\* fields the engine computed for it in that cycle, delay_minutes next to
\* delay_status: the post-processing removes none of them.
C38_DerivedPublished ==
  /\ Len(shown) = Len(returned.flights)
  /\ \A n \in 1..Len(returned.flights) :
       LET r == returned.flights[n]
       IN  /\ shown[n].delay_status = r.delay_status
           /\ shown[n].delay_status_key = r.delay_status_key
           /\ shown[n].delay_minutes = r.delay_minutes
           /\ shown[n].duration_scheduled_minutes = r.duration_scheduled_minutes
           /\ shown[n].duration_estimated_minutes = r.duration_estimated_minutes
           /\ shown[n].duration_actual_minutes = r.duration_actual_minutes
           /\ shown[n].duration_minutes = r.duration_minutes

\* a published flight shown as Delayed whose delay_minutes the engine had
\* computed
C38_Witness ==
  /\ pc[1] = "idle"
  /\ \E n \in 1..Len(returned.flights) :
       /\ returned.flights[n].delay_status = "Delayed"
       /\ returned.flights[n].delay_minutes > 0
       /\ shown[n].delay_status = "Delayed"
       /\ shown[n].delay_minutes = Dropped

\* ------------------------------------------- the two spellings of cancelled

\* the same record in state cancelled
Respelled(f) ==
  IF f.status_state = "canceled" THEN [f EXCEPT !.status_state = "cancelled"] ELSE f

\* C39: a record in state canceled gets the same result as the same record in
\* state cancelled from the delay override, the state-vs-time coercion, the
\* assumed-arrival guard, the scheduler's terminal-state stop and the fetch
\* pass's terminal skip.
C39_SpellingsAlike ==
  (sres # <<>> /\ sq.flight.status_state = "canceled") =>
    LET f == sq.flight
        g == Respelled(f)
    IN  /\ \A grace \in DelayGraces :
             ComputeDelayStatus(f, grace) = ComputeDelayStatus(g, grace)
        /\ Respelled(CoerceStateByTime(f, sq.now1)) = CoerceStateByTime(g, sq.now1)
        /\ AssumedArrivalFires(f, sq.now1) <=> AssumedArrivalFires(g, sq.now1)
        /\ sres[1] = ComputeNextRefreshSeconds(g, sq.now1, sq.ttl)
        /\ sres[2] = ComputeNextRefreshSeconds(g, sq.now2, sq.ttl)
        /\ TerminalSkip(f) <=> TerminalSkip(g)

\* the scheduler has answered for a canceled record with a refresh interval
\* where the cancelled one gets none
C39_Witness ==
  /\ sres # <<>>
  /\ sq.flight.status_state = "canceled"
  /\ sres[1] # NoRefresh
  /\ ComputeNextRefreshSeconds(Respelled(sq.flight), sq.now1, sq.ttl) = NoRefresh
  /\ ~TerminalSkip(sq.flight)

\* ------------------------------------------------- the directory lookups

\* the provider adapters of directory.py, in the order they are asked
DirectoryProviders == <<"aviationstack", "airlabs", "fr24">>

\* _directory_source(options)

\* the providers an API key is configured for

\* get_airport, lines 154-160: the providers of the source that have a key
\* and are not blocked
AirportProviders(source, keyed, blk) ==
  SelectSeq(DirectoryProviders,
            LAMBDA p : source \in {"auto", p} /\ p \in keyed /\ p \notin blk)

\* get_airline, lines 215-219: the providers of the source that have a key
AirlineProviders(source, keyed) ==
  SelectSeq(SubSeq(DirectoryProviders, 1, 2),
            LAMBDA p : source \in {"auto", p} /\ p \in keyed)

\* for p in providers: the next provider of the list is called (lines 162-164,
\* 221-223); with none left the file fallback answers and the lookup returns
Invoke(kind, providers) ==
  IF providers = <<>>
    THEN /\ lookup' = NoLookup
         /\ UNCHANGED invoked
    ELSE /\ lookup' = [kind |-> kind, providers |-> providers]
         /\ invoked' = invoked \cup {[kind |-> kind, provider |-> Head(providers),
                                      blocked |-> Head(providers) \in blocked]}

\* get_airport up to its first provider call; fresh: the directory cache
\* holds a fresh, complete entry
GetAirport(source, keyed, fresh) ==
  /\ lookup = NoLookup
  /\ IF fresh THEN UNCHANGED <<lookup, invoked>>
     ELSE Invoke("airport", AirportProviders(source, keyed, blocked))
  /\ UNCHANGED <<blocked, preview, previews, manual_records, confirm>>

\* get_airline up to its first provider call
GetAirline(source, keyed, fresh) ==
  /\ lookup = NoLookup
  /\ IF fresh THEN UNCHANGED <<lookup, invoked>>
     ELSE Invoke("airline", AirlineProviders(source, keyed))
  /\ UNCHANGED <<blocked, preview, previews, manual_records, confirm>>

\* the provider called answers (data) or fails: the lookup returns its data
\* or goes on to the next provider
DirectoryAnswers(data) ==
  /\ lookup # NoLookup
  /\ IF data THEN lookup' = NoLookup /\ UNCHANGED invoked
     ELSE Invoke(lookup.kind, Tail(lookup.providers))
  /\ UNCHANGED <<blocked, preview, previews, manual_records, confirm>>

\* a provider answers with a rate limit and is put on the block list
RateLimited(p) ==
  /\ p \notin blocked
  /\ blocked' = blocked \cup {p}
  /\ UNCHANGED <<lookup, invoked, preview, previews, manual_records, confirm>>

\* the block of a provider expires
BlockExpires(p) ==
  /\ p \in blocked
  /\ blocked' = blocked \ {p}
  /\ UNCHANGED <<lookup, invoked, preview, previews, manual_records, confirm>>

NextDirectory ==
  \/ \E source \in {"auto", "aviationstack", "airlabs", "fr24", "openflights"}, keyed \in (SUBSET {"aviationstack", "airlabs", "fr24"}), fresh \in BOOLEAN :
       GetAirport(source, keyed, fresh) /\ UNCHANGED <<engineVars, schedVars>>
  \/ \E source \in {"auto", "aviationstack", "airlabs", "fr24", "openflights"}, keyed \in (SUBSET {"aviationstack", "airlabs", "fr24"}), fresh \in BOOLEAN :
       GetAirline(source, keyed, fresh) /\ UNCHANGED <<engineVars, schedVars>>
  \/ \E data \in BOOLEAN : DirectoryAnswers(data) /\ UNCHANGED <<engineVars, schedVars>>
  \/ \E p \in {"aviationstack", "airlabs", "fr24"} :
       RateLimited(p) /\ UNCHANGED <<engineVars, schedVars>>
  \/ \E p \in {"aviationstack", "airlabs", "fr24"} :
       BlockExpires(p) /\ UNCHANGED <<engineVars, schedVars>>

SpecDirectory == Init /\ [][NextDirectory]_vars

\* C40: no directory lookup, for an airport or for an airline, calls a
\* provider that is on the rate-limit block list at the time of the call.
C40_BlockedNeverInvoked == \A c \in invoked : ~c.blocked

\* an airline lookup has called a blocked provider that an airport lookup
\* has left out
C40_Witness ==
  /\ lookup = NoLookup
  /\ "airlabs" \in blocked
  /\ [kind |-> "airline", provider |-> "airlabs", blocked |-> TRUE] \in invoked
  /\ [kind |-> "airport", provider |-> "fr24", blocked |-> FALSE] \in invoked
  /\ \A c \in invoked : c.kind = "airport" => ~c.blocked

====
